---------------------------- MODULE Spec2Model ----------------------------
(***************************************************************************)
(* A model of MansionNET SearchBot (src/searchbot.py): the dual-window     *)
(* rate limiter, the receive loop's line framing, the dispatch of framed   *)
(* lines to the private and channel handlers, the search gate and the      *)
(* chunked delivery of replies.                                            *)
(*                                                                         *)
(* Text is modelled character by character: a Python str is a sequence of  *)
(* one-character strings, a received chunk is a sequence of bytes.  A      *)
(* character that has no printable form is written as a label of two or    *)
(* more letters: "CR" and "LF" (the line terminator), "TAB", "^C" (\x03,   *)
(* the IRC colour code), "^O" (\x0F, reset), and the bytes "C3" "A9" (the  *)
(* UTF-8 encoding of the character "U+00E9") and "FF" (never valid in      *)
(* UTF-8).  Python indexes from 0 and the model from 1: s[:n] is           *)
(* SubSeq(s, 1, n) and s[n:] is SubSeq(s, n + 1, Len(s)).                  *)
(***************************************************************************)
EXTENDS Integers, Sequences, FiniteSets, TLC

VARIABLES
    pc,             \* position of run(): "init", "handshake", "ready", "dispatch", "backoff"
    hbuf,           \* connect()'s local buffer (src 74)
    buffer,         \* run()'s local buffer (src 319)
    lines,          \* run(): the lines of the current feed not yet dispatched (src 327)
    minute_window,  \* RateLimiter.minute_window (src 22)
    day_window,     \* RateLimiter.day_window (src 23)
    now,            \* the clock datetime.now() reads, in ticks
    ev,             \* what the step just taken did, in order (calls, sends, sleeps)
    recorded,       \* every timestamp add_request ever appended, in order
    closed,         \* the peer has closed the socket: recv returns no bytes from now on
    stream,         \* framer check: the bytes the peer sends in one session
    rest,           \* framer check: the bytes of stream not yet received
    emitted,        \* framer check: the lines the framer has emitted so far
    failed,         \* framer check: some feed failed to decode
    original,       \* chunker check: the message send_private_message was given
    remaining,      \* chunker check: the loop's message, what is still to send (src 110)
    limit,          \* chunker check: max_length (src 108)
    out,            \* chunker check: the sends and sleeps of the call so far
    removed,        \* chunker check: the whitespace lstrip removed at each split (src 121)
    finished        \* chunker check: the loop has ended

botVars == <<pc, hbuf, lines, minute_window, day_window, now, ev, recorded, closed>>
framerVars == <<stream, rest, emitted, failed>>
chunkerVars == <<original, remaining, limit, out, removed, finished>>
vars == <<pc, hbuf, buffer, lines, minute_window, day_window, now, ev, recorded, closed,
          stream, rest, emitted, failed,
          original, remaining, limit, out, removed, finished>>

-----------------------------------------------------------------------------
(* Python's str operations, on sequences of characters.                     *)

\* str.isspace() characters that occur in the model
Whitespace == {" ", "CR", "LF", "TAB"}

\* pat occurs in s at index i
OccursAt(s, pat, i) ==
    /\ i >= 1
    /\ i + Len(pat) - 1 <= Len(s)
    /\ \A j \in 1..Len(pat) : s[i + j - 1] = pat[j]

\* pat in s
Contains(s, pat) == \E i \in 1..(Len(s) - Len(pat) + 1) : OccursAt(s, pat, i)

\* s.find(pat) + 1: the index of the first occurrence of pat in s, 0 when there is none
Find(s, pat) ==
    IF Contains(s, pat)
    THEN CHOOSE i \in 1..(Len(s) - Len(pat) + 1) :
             OccursAt(s, pat, i) /\ \A j \in 1..(i - 1) : ~OccursAt(s, pat, j)
    ELSE 0

\* s.startswith(pat)
StartsWith(s, pat) == OccursAt(s, pat, 1)

\* s[n:] of Python (0-based n)
DropFirst(s, n) == SubSeq(s, n + 1, Len(s))

\* s[:n] of Python
TakeFirst(s, n) == SubSeq(s, 1, IF n < Len(s) THEN n ELSE Len(s))

\* s.rfind(' ') + 1: the index of the last space of s, 0 when there is none
RFindSpace(s) ==
    IF \E i \in 1..Len(s) : s[i] = " "
    THEN CHOOSE i \in 1..Len(s) : s[i] = " " /\ \A j \in (i + 1)..Len(s) : s[j] # " "
    ELSE 0

\* the index of the first character of s that is not whitespace, Len(s) + 1 when
\* there is none
FirstInk(s) ==
    IF \E i \in 1..Len(s) : s[i] \notin Whitespace
    THEN CHOOSE i \in 1..Len(s) :
             s[i] \notin Whitespace /\ \A j \in 1..(i - 1) : s[j] \in Whitespace
    ELSE Len(s) + 1

\* the index of the last character of s that is not whitespace, 0 when there is none
LastInk(s) ==
    IF \E i \in 1..Len(s) : s[i] \notin Whitespace
    THEN CHOOSE i \in 1..Len(s) :
             s[i] \notin Whitespace /\ \A j \in (i + 1)..Len(s) : s[j] \in Whitespace
    ELSE 0

\* the index of the first whitespace character of s, 0 when there is none
FirstBlank(s) ==
    IF \E i \in 1..Len(s) : s[i] \in Whitespace
    THEN CHOOSE i \in 1..Len(s) :
             s[i] \in Whitespace /\ \A j \in 1..(i - 1) : s[j] \notin Whitespace
    ELSE 0

\* a left strip that removes one character whatever it is
DropOne(s) == SubSeq(s, 2, Len(s))

\* s.lstrip()
LStrip(s) == SubSeq(s, FirstInk(s), Len(s))

\* s.strip()
Strip(s) == SubSeq(s, FirstInk(s), LastInk(s))

\* s.split(sep): the parts of s between the occurrences of sep, left to right
RECURSIVE SplitAll(_, _)
SplitAll(s, sep) ==
    LET i == Find(s, sep)
    IN  IF i = 0 THEN <<s>>
        ELSE <<SubSeq(s, 1, i - 1)>> \o SplitAll(DropFirst(s, i - 1 + Len(sep)), sep)

\* s.split(sep, 1): s cut at the first occurrence of sep, one part when there is none
SplitOnce(s, sep) ==
    LET i == Find(s, sep)
    IN  IF i = 0 THEN <<s>>
        ELSE <<SubSeq(s, 1, i - 1), DropFirst(s, i - 1 + Len(sep))>>

\* s.split(): the maximal runs of non-whitespace characters of s
RECURSIVE SplitWs(_)
SplitWs(s) ==
    LET t == LStrip(s)
        b == FirstBlank(t)
    IN  IF t = <<>> THEN <<>>
        ELSE IF b = 0 THEN <<t>>
        ELSE <<SubSeq(t, 1, b - 1)>> \o SplitWs(DropFirst(t, b))

\* sep.join(parts)
RECURSIVE Join(_, _)
Join(parts, sep) ==
    IF parts = <<>> THEN <<>>
    ELSE IF Len(parts) = 1 THEN parts[1]
    ELSE parts[1] \o sep \o Join(Tail(parts), sep)

\* s.replace(pat, ''), pat not empty
RECURSIVE Remove(_, _)
Remove(s, pat) ==
    LET i == Find(s, pat)
    IN  IF pat = <<>> \/ i = 0 THEN s
        ELSE SubSeq(s, 1, i - 1) \o Remove(DropFirst(s, i - 1 + Len(pat)), pat)

\* c * n
Rep(c, n) == [i \in 1..n |-> c]

-----------------------------------------------------------------------------
(* The receive loop's framing: run(), src 323-325 and 351-353.              *)

CRLF == <<"CR", "LF">>

\* bytes.decode("UTF-8") of a chunk.  "C3" "A9" is the one two-byte character of
\* the model and every one-character label is an ASCII byte: the chunk decodes
\* when it holds no "FF", every "C3" is followed by "A9" and every "A9" follows a
\* "C3"; the text is then the bytes with each pair made one character.
Utf8Decode(bytes) ==
    LET ok == \A i \in 1..Len(bytes) :
                  /\ bytes[i] # "FF"
                  /\ bytes[i] = "C3" => (i < Len(bytes) /\ bytes[i + 1] = "A9")
                  /\ bytes[i] = "A9" => (i > 1 /\ bytes[i - 1] = "C3")
        IsNotContinuation(b) == b # "A9"
        leads == SelectSeq(bytes, IsNotContinuation)
    IN  IF ok
        THEN [ok |-> TRUE,
              text |-> [i \in 1..Len(leads) |->
                           IF leads[i] = "C3" THEN "U+00E9" ELSE leads[i]]]
        ELSE [ok |-> FALSE, text |-> <<>>]

\* One pass of the receive loop over a received chunk: the new buffer, the lines to
\* dispatch, and whether the chunk failed to decode (then the buffer is emptied).
FramerFeed(buf, chunk) ==
    LET d == Utf8Decode(chunk)
        parts == SplitAll(buf \o d.text, CRLF)
    IN  IF ~d.ok THEN [buffer |-> <<>>, lines |-> <<>>, failed |-> TRUE]
        ELSE [buffer |-> parts[Len(parts)],
              lines |-> SubSeq(parts, 1, Len(parts) - 1),
              failed |-> FALSE]

\* str.encode("UTF-8"), the inverse of Utf8Decode on decoded text
RECURSIVE Utf8Encode(_)
Utf8Encode(text) ==
    IF text = <<>> THEN <<>>
    ELSE (IF text[1] = "U+00E9" THEN <<"C3", "A9">> ELSE <<text[1]>>)
         \o Utf8Encode(Tail(text))

-----------------------------------------------------------------------------
(* The literal texts of the program and of the lines fed to it, character   *)
(* by character.                                                            *)

\* the text "PRIVMSG"
PRIVMSG ==
    <<"P","R","I","V","M","S","G">>

\* the text "PRIVMSG "
PRIVMSG_SP ==
    <<"P","R","I","V","M","S","G"," ">>

\* the text "PING"
PING ==
    <<"P","I","N","G">>

\* the text "PONG "
PONG_SP ==
    <<"P","O","N","G"," ">>

\* the text "!"
BANG ==
    <<"!">>

\* the text ":"
COLON ==
    <<":">>

\* the text " :"
SP_COLON ==
    <<" ",":">>

\* the text "!search "
SEARCH_SP ==
    <<"!","s","e","a","r","c","h"," ">>

\* the text "!search"
SEARCH ==
    <<"!","s","e","a","r","c","h">>

\* the text "!help"
HELP ==
    <<"!","h","e","l","p">>

\* self.nickname = "SearchBot" (src 45)
nickname ==
    <<"S","e","a","r","c","h","B","o","t">>

\* the one configured channel, "#test_room" (src 46)
test_room ==
    <<"#","t","e","s","t","_","r","o","o","m">>

\* src 265
RateLimitNotice ==
    <<"R","a","t","e"," ","l","i","m","i","t"," ","e","x","c","e","e","d","e","d","."," ","P",
      "l","e","a","s","e"," ","t","r","y"," ","a","g","a","i","n"," ","l","a","t","e","r",".">>

\* src 270
UsageNotice ==
    <<"U","s","a","g","e",":"," ","!","s","e","a","r","c","h"," ","<","q","u","e","r","y",">">>

\* src 278
NoResultsNotice ==
    <<"N","o"," ","r","e","s","u","l","t","s"," ","f","o","u","n","d",".">>

\* src 303
ErrorNotice ==
    <<"A","n"," ","e","r","r","o","r"," ","o","c","c","u","r","r","e","d"," ","p","r","o","c",
      "e","s","s","i","n","g"," ","y","o","u","r"," ","r","e","q","u","e","s","t",".">>

\* src 288-291, ^C is the colour code \x03 and ^O the reset \x0F
Attribution ==
    <<"^C","1","4","S","e","a","r","c","h"," ","r","e","s","u","l","t","s"," ","p","o","w","e",
      "r","e","d"," ","b","y"," ","^C","1","2","h","t","t","p","s",":","/","/","h","e","a","r",
      "c","h",".","c","o","/","^C","1","4"," ","-"," ","P","r","i","v","a","c","y","-","f","o",
      "c","u","s","e","d"," ","m","e","t","a","s","e","a","r","c","h","^O">>

\* src 296-298
PrivateHelp ==
    <<"S","e","a","r","c","h","B","o","t"," ","C","o","m","m","a","n","d","s",":"," ","!","s",
      "e","a","r","c","h"," ","<","q","u","e","r","y",">"," ","-"," ","S","e","a","r","c","h",
      " ","t","h","e"," ","w","e","b"," ","p","r","i","v","a","t","e","l","y"," ","(","r","e",
      "s","u","l","t","s"," ","s","e","n","t"," ","v","i","a"," ","P","M",")"," ","|"," ","!",
      "h","e","l","p"," ","-"," ","S","h","o","w"," ","t","h","i","s"," ","h","e","l","p"," ",
      "m","e","s","s","a","g","e">>

\* src 308-309
ChannelHelp ==
    <<"S","e","a","r","c","h","B","o","t",":"," ","U","s","e"," ","!","s","e","a","r","c","h",
      " ","<","q","u","e","r","y",">"," ","i","n"," ","a"," ","p","r","i","v","a","t","e"," ",
      "m","e","s","s","a","g","e"," ","t","o"," ","s","e","a","r","c","h"," ","p","r","i","v",
      "a","t","e","l","y","."," ","R","e","s","u","l","t","s"," ","w","i","l","l"," ","b","e",
      " ","s","e","n","t"," ","t","o"," ","y","o","u"," ","d","i","r","e","c","t","l","y",".">>

\* src 312, after the sender's name
RedirectNotice ==
    <<":"," ","T","o"," ","p","r","o","t","e","c","t"," ","y","o","u","r"," ","p","r","i","v",
      "a","c","y",","," ","p","l","e","a","s","e"," ","u","s","e"," ","s","e","a","r","c","h",
      " ","c","o","m","m","a","n","d","s"," ","i","n"," ","a"," ","p","r","i","v","a","t","e",
      " ","m","e","s","s","a","g","e",".">>

\* src 233
NoTitle ==
    <<"N","o"," ","t","i","t","l","e">>

\* src 234
NoUrl ==
    <<"N","o"," ","U","R","L">>

\* src 243
Ellipsis ==
    <<".",".",".">>

\* src 251
Bar ==
    <<" ","|"," ">>

\* src 251
DotSpace ==
    <<"."," ">>

\* COLOR + GREEN (src 227, 230)
ColorGreen ==
    <<"^C","0","3">>

\* COLOR + BLUE (src 227, 229)
ColorBlue ==
    <<"^C","1","2">>

\* COLOR + GRAY (src 227, 231)
ColorGray ==
    <<"^C","1","4">>

\* the prefix of a line from the user alice
Alice ==
    <<":","a","l","i","c","e","!","u","@","h">>

\* the prefix of a line from the user bob
Bob ==
    <<":","b","o","b","!","u","@","h">>

\* the text "alice"
alice ==
    <<"a","l","i","c","e">>

\* the text "bob"
bob ==
    <<"b","o","b">>

\* a channel the bot has not joined
other_room ==
    <<"#","o","t","h","e","r">>

\* the text "!search cats"
SearchCats ==
    <<"!","s","e","a","r","c","h"," ","c","a","t","s">>

\* the text "!search privacy tools"
SearchPrivacyTools ==
    <<"!","s","e","a","r","c","h"," ","p","r","i","v","a","c","y"," ","t","o","o","l","s">>

\* the search command with nothing after it
SearchNothing ==
    <<"!","s","e","a","r","c","h"," ">>

\* the text "hello"
Hello ==
    <<"h","e","l","l","o">>

\* a keepalive probe
PingLine ==
    <<"P","I","N","G"," ",":","i","r","c",".","e","x","a","m","p","l","e",".","c","o","m">>

\* a keepalive probe with no argument
PingBare ==
    <<"P","I","N","G">>

\* a delivery line with no colon before the payload
NoColonLine ==
    <<":","a","l","i","c","e","!","u","@","h"," ","P","R","I","V","M","S","G"," ","S","e","a",
      "r","c","h","B","o","t">>

\* a line that holds "PRIVMSG" but not "PRIVMSG "
MarkerOnlyLine ==
    <<":","a","l","i","c","e","!","u","@","h"," ","N","O","T","I","C","E"," ","S","e","a","r",
      "c","h","B","o","t"," ",":","P","R","I","V","M","S","G">>

\* a line that is neither a probe nor a delivery
JoinLine ==
    <<":","a","l","i","c","e","!","u","@","h"," ","J","O","I","N"," ","#","t","e","s","t","_",
      "r","o","o","m">>

\* src 71
NickLine ==
    <<"N","I","C","K"," ","S","e","a","r","c","h","B","o","t">>

\* src 72
UserLine ==
    <<"U","S","E","R"," ","S","e","a","r","c","h","B","o","t"," ","0"," ","*"," ",":","M","a",
      "n","s","i","o","n","N","e","t"," ","S","e","a","r","c","h"," ","B","o","t">>

\* the text "JOIN "
JOIN_SP ==
    <<"J","O","I","N"," ">>

\* src 83
RPL_WELCOME ==
    <<"0","0","1">>

\* src 89
ClosingLink ==
    <<"C","l","o","s","i","n","g"," ","L","i","n","k">>

\* src 89
ERROR ==
    <<"E","R","R","O","R">>

\* the server's welcome
WelcomeLine ==
    <<":","i","r","c",".","e","x","a","m","p","l","e",".","c","o","m"," ","0","0","1"," ","S",
      "e","a","r","c","h","B","o","t"," ",":","W","e","l","c","o","m","e">>

\* a server notice before the welcome
NoticeLine ==
    <<":","i","r","c",".","e","x","a","m","p","l","e",".","c","o","m"," ","N","O","T","I","C",
      "E"," ","*"," ",":","*","*","*"," ","L","o","o","k","i","n","g"," ","u","p">>

\* the server closes the link
ErrorLine ==
    <<"E","R","R","O","R"," ",":","C","l","o","s","i","n","g"," ","L","i","n","k",":"," ","S",
      "e","a","r","c","h","B","o","t"," ","(","b","a","n","n","e","d",")">>

\* the text "Cats"
CatsTitle ==
    <<"C","a","t","s">>

\* the text "https://cats.example"
CatsUrl ==
    <<"h","t","t","p","s",":","/","/","c","a","t","s",".","e","x","a","m","p","l","e">>

\* a description that holds the url and runs of blanks
CatsDescription ==
    <<" ","C","a","t","s"," "," ","a","r","e"," ","s","m","a","l","l"," "," "," ","c","a","r",
      "n","i","v","o","r","e","s",","," ","s","e","e"," ","h","t","t","p","s",":","/","/","c",
      "a","t","s",".","e","x","a","m","p","l","e"," ">>

\* the server closes the link of a client at the address 2001:db8::1
BannedLine ==
    <<"E","R","R","O","R"," ",":","C","l","o","s","i","n","g"," ","L","i","n","k",":"," ","S",
      "e","a","r","c","h","B","o","t","[","2","0","0","1",":","d","b","8",":",":","1","]"," ",
      "(","b","a","n","n","e","d",")">>

-----------------------------------------------------------------------------
(* RateLimiter, src 18-38.  Time is counted in ticks; the two window        *)
(* durations and the two capacities are scaled down so that both windows    *)
(* fill and expire within MaxTime ticks (the program has one minute, one    *)
(* day, 5 calls and 500 calls, src 27, 29, 50, 51).                         *)

\* timedelta(minutes=1), in ticks
MinuteSpan == 1

\* timedelta(days=1), in ticks
DaySpan == 3

\* RateLimiter.requests_per_minute
requests_per_minute == 2

\* RateLimiter.requests_per_day
requests_per_day == 3

\* the clock stops here
MaxTime == 4

\* a pruning that also removes the timestamp exactly one span old
RECURSIVE PruneAtBoundary(_, _, _)
PruneAtBoundary(window, t, span) ==
    IF window # <<>> /\ window[1] <= t - span
    THEN PruneAtBoundary(Tail(window), t, span)
    ELSE window

\* src 27-28 and 29-30: popleft while the oldest timestamp is before t - span
RECURSIVE Prune(_, _, _)
Prune(window, t, span) ==
    IF window # <<>> /\ window[1] < t - span
    THEN Prune(Tail(window), t, span)
    ELSE window

\* a check that still allows a call when a window holds as many as its capacity
can_make_request_at_capacity(mw, dw, t) ==
    LET m == Prune(mw, t, MinuteSpan)
        d == Prune(dw, t, DaySpan)
    IN  [minute_window |-> m,
         day_window |-> d,
         ok |-> Len(m) <= requests_per_minute /\ Len(d) <= requests_per_day]

\* RateLimiter.can_make_request at time t: both windows pruned, and the answer
can_make_request(mw, dw, t) ==
    LET m == Prune(mw, t, MinuteSpan)
        d == Prune(dw, t, DaySpan)
    IN  [minute_window |-> m,
         day_window |-> d,
         ok |-> Len(m) < requests_per_minute /\ Len(d) < requests_per_day]

\* a recording that appends the timestamp twice
add_request_twice(mw, dw, t) ==
    [minute_window |-> Append(Append(mw, t), t), day_window |-> Append(Append(dw, t), t)]

\* RateLimiter.add_request at time t
add_request(mw, dw, t) ==
    [minute_window |-> Append(mw, t), day_window |-> Append(dw, t)]

-----------------------------------------------------------------------------
(* Sending: send and send_private_message, src 96-126.  What a handler     *)
(* does is a sequence of events: a "send" is one call of self.send (one    *)
(* line handed to the socket), a "sleep" one call of time.sleep, a "pm"    *)
(* one call of send_private_message.                                       *)

\* max_length, src 108
max_length == 400

\* self.send(message), src 96-102
Send(message) == [type |-> "send", line |-> message]

\* time.sleep(ms / 1000)
Sleep(ms) == [type |-> "sleep", ms |-> ms]

\* f"PRIVMSG {target} :{text}", src 112, 120
PrivmsgLine(target, text) == PRIVMSG_SP \o target \o SP_COLON \o text

\* a breaking point one past the limit when the message has no space to break at
split_point_past_limit(message, L) ==
    IF RFindSpace(TakeFirst(message, L)) = 0
    THEN L + 1
    ELSE RFindSpace(TakeFirst(message, L)) - 1

\* split_point, src 116-118: the 0-based index of the last space among the first
\* L characters, L when there is none
split_point(message, L) ==
    IF RFindSpace(TakeFirst(message, L)) = 0
    THEN L
    ELSE RFindSpace(TakeFirst(message, L)) - 1

\* the while loop of send_private_message, src 110-122, with max_length = L
RECURSIVE SendChunks(_, _, _)
SendChunks(target, message, L) ==
    IF message = <<>> THEN <<>>
    ELSE IF Len(message) <= L THEN <<Send(PrivmsgLine(target, message))>>
    ELSE <<Send(PrivmsgLine(target, TakeFirst(message, split_point(message, L)))),
           Sleep(500)>>
         \o SendChunks(target, LStrip(DropFirst(message, split_point(message, L))), L)

\* send_private_message(target, message), src 104-126
send_private_message(target, message) ==
    <<[type |-> "pm", target |-> target, text |-> message]>>
    \o SendChunks(target, message, max_length)

-----------------------------------------------------------------------------
(* The search collaborator and the formatter, src 128-258.  A result is    *)
(* the dict the API returned: its keys, the keys whose value is null, and  *)
(* the text of the others.  A response is what requests.get did.           *)

\* dict.get(key, default) of a result
Get(result, key, default) == IF key \in result.keys THEN result[key] ELSE default

\* .strip() of a null field raises AttributeError (src 233-235)
FormatRaises(result) == result.nulls \cap result.keys # {}

\* str(index)
Digit(index) ==
    CASE index = 1 -> "1" [] index = 2 -> "2" [] index = 3 -> "3"
      [] index = 4 -> "4" [] index = 5 -> "5" [] OTHER -> "6"

\* the truncation of src 242-247: over n characters, keep n - 3 and add "..."
Truncate(s, n) == IF Len(s) > n THEN TakeFirst(s, n - 3) \o Ellipsis ELSE s

\* format_search_result(index, result), src 223-258, of a result with no null field
format_search_result(index, result) ==
    LET title == Truncate(Strip(Get(result, "title", NoTitle)), 100)
        url0 == Strip(Get(result, "url", NoUrl))
        url == Truncate(url0, 100)
        desc0 == Strip(Get(result, "description", <<>>))
        desc == Truncate(Join(SplitWs(Remove(desc0, url0)), <<" ">>), 200)
        result_line == <<Digit(index)>> \o DotSpace \o ColorGreen \o title \o <<"^O">>
                       \o Bar \o ColorBlue \o url \o <<"^O">>
    IN  IF desc # <<>> /\ Len(desc) > 20
        THEN result_line \o Bar \o ColorGray \o desc \o <<"^O">>
        ELSE result_line

\* search_hearch(query), src 128-217: the first five results of a 200 response,
\* nothing when the request raised or the status is not 200
search_hearch(query, resp) ==
    IF ~resp.raised /\ resp.status_code = 200 THEN TakeFirst(resp.results, 5) ELSE <<>>

-----------------------------------------------------------------------------
(* The handlers, src 260-312.  st is the state a handler works on: the     *)
(* rate limiter's windows, the clock, the events so far, the timestamps     *)
(* recorded so far, and whether an exception left the dispatch.             *)

Emit(st, events) == [st EXCEPT !.ev = @ \o events]

\* one call of can_make_request (src 263) from state st with answer c: whether it
\* allowed, and how many timestamps its two while loops removed
CheckEvent(st, c) ==
    [type |-> "check", ok |-> c.ok,
     expired |-> (Len(st.minute_window) - Len(c.minute_window))
                 + (Len(st.day_window) - Len(c.day_window))]

\* one call of search_hearch (src 274): the query and how many results it returned
SearchEvent(query, results) ==
    [type |-> "search", query |-> query, returned |-> Len(results)]

\* the for loop of src 282-285 from result number i on: its events, and whether
\* formatting a result raised
RECURSIVE SendResults(_, _, _)
SendResults(sender, results, i) ==
    IF results = <<>> THEN [ev |-> <<>>, raised |-> FALSE]
    ELSE IF FormatRaises(results[1]) THEN [ev |-> <<>>, raised |-> TRUE]
    ELSE LET r == SendResults(sender, Tail(results), i + 1)
         IN  [ev |-> send_private_message(sender, format_search_result(i, results[1]))
                     \o <<Sleep(500)>> \o r.ev,
              raised |-> r.raised]

\* a private handler that sends the rate-limit notice and searches all the same
\* (no return after src 265)
handle_private_message_no_return(sender, message, st, resp, delay) ==
    IF StartsWith(message, SEARCH_SP)
    THEN LET c == can_make_request(st.minute_window, st.day_window, st.now)
             checked == [st EXCEPT !.minute_window = c.minute_window,
                                   !.day_window = c.day_window,
                                   !.ev = @ \o <<CheckEvent(st, c)>>]
             noticed == IF c.ok THEN checked
                        ELSE Emit(checked, send_private_message(sender, RateLimitNotice))
             query == Strip(DropFirst(message, 8))
             results == search_hearch(query, resp)
             t == st.now + delay
             a == add_request(c.minute_window, c.day_window, t)
             searched ==
                 [noticed EXCEPT !.now = t,
                                 !.minute_window = a.minute_window,
                                 !.day_window = a.day_window,
                                 !.recorded = Append(@, t),
                                 !.ev = @ \o <<SearchEvent(query, results),
                                               [type |-> "record", at |-> t]>>]
             sent == SendResults(sender, results, 1)
         IN  IF query = <<>>
             THEN Emit(noticed, send_private_message(sender, UsageNotice))
             ELSE IF results = <<>>
             THEN Emit(searched, send_private_message(sender, NoResultsNotice))
             ELSE IF sent.raised
             THEN Emit(searched, sent.ev \o send_private_message(sender, ErrorNotice))
             ELSE Emit(searched,
                       sent.ev \o <<Sleep(500)>>
                       \o send_private_message(sender, Attribution))
    ELSE IF message = HELP
    THEN Emit(st, send_private_message(sender, PrivateHelp))
    ELSE st

\* handle_private_message(sender, message), src 260-303; resp is what the search
\* API answers if it is called, delay the ticks the call takes
handle_private_message(sender, message, st, resp, delay) ==
    IF StartsWith(message, SEARCH_SP)
    THEN LET c == can_make_request(st.minute_window, st.day_window, st.now)
             checked == [st EXCEPT !.minute_window = c.minute_window,
                                   !.day_window = c.day_window,
                                   !.ev = @ \o <<CheckEvent(st, c)>>]
             query == Strip(DropFirst(message, 8))
         IN  IF ~c.ok
             THEN Emit(checked, send_private_message(sender, RateLimitNotice))
             ELSE IF query = <<>>
             THEN Emit(checked, send_private_message(sender, UsageNotice))
             ELSE LET results == search_hearch(query, resp)
                      t == checked.now + delay
                      a == add_request(checked.minute_window, checked.day_window, t)
                      searched ==
                          [checked EXCEPT !.now = t,
                                          !.minute_window = a.minute_window,
                                          !.day_window = a.day_window,
                                          !.recorded = Append(@, t),
                                          !.ev = @ \o <<SearchEvent(query, results),
                                                        [type |-> "record", at |-> t]>>]
                      sent == SendResults(sender, TakeFirst(results, 5), 1)
                  IN  IF results = <<>>
                      THEN Emit(searched, send_private_message(sender, NoResultsNotice))
                      ELSE IF sent.raised
                      THEN Emit(searched,
                                sent.ev \o send_private_message(sender, ErrorNotice))
                      ELSE Emit(searched,
                                sent.ev \o <<Sleep(500)>>
                                \o send_private_message(sender, Attribution))
    ELSE IF message = HELP
    THEN Emit(st, send_private_message(sender, PrivateHelp))
    ELSE st

\* a channel handler that answers a search in the channel
handle_channel_message_searching(sender, channel, message, st) ==
    IF message = HELP
    THEN Emit(st, <<Send(PrivmsgLine(channel, ChannelHelp))>>)
    ELSE IF StartsWith(message, SEARCH)
    THEN Emit(st, <<SearchEvent(Strip(DropFirst(message, 7)), <<>>)>>
                  \o send_private_message(channel, NoResultsNotice))
    ELSE st

\* handle_channel_message(sender, channel, message), src 305-312
handle_channel_message(sender, channel, message, st) ==
    IF message = HELP
    THEN Emit(st, <<Send(PrivmsgLine(channel, ChannelHelp))>>)
    ELSE IF StartsWith(message, SEARCH)
    THEN Emit(st, <<Send(PrivmsgLine(channel, sender \o RedirectNotice))>>)
    ELSE st

\* self.channels, src 46
channels == <<test_room>>

\* target in self.channels
IsChannel(target) == \E i \in 1..Len(channels) : channels[i] = target

\* a routing that hands every line not addressed to a joined channel to the
\* private handler
route_private_unless_channel(sender, target, message, st, resp, delay) ==
    IF IsChannel(target)
    THEN handle_channel_message(
             sender, target, message,
             Emit(st, <<[type |-> "channel", sender |-> sender, channel |-> target,
                         message |-> message]>>))
    ELSE handle_private_message(
             sender, message,
             Emit(st, <<[type |-> "private", sender |-> sender, message |-> message]>>),
             resp, delay)

\* src 343-346: the handler the target selects, if any
route(sender, target, message, st, resp, delay) ==
    IF target = nickname
    THEN handle_private_message(
             sender, message,
             Emit(st, <<[type |-> "private", sender |-> sender, message |-> message]>>),
             resp, delay)
    ELSE IF IsChannel(target)
    THEN handle_channel_message(
             sender, target, message,
             Emit(st, <<[type |-> "channel", sender |-> sender, channel |-> target,
                         message |-> message]>>))
    ELSE st

\* the body of the for loop of run() for one line, src 328-349
dispatch_line(line, st, resp, delay) ==
    LET st0 == Emit(st, <<[type |-> "line", line |-> line]>>)
        toks == SplitWs(line)
        isPing == StartsWith(line, PING)
        st1 == IF isPing /\ Len(toks) >= 2
               THEN Emit(st0, <<Send(PONG_SP \o toks[2])>>)
               ELSE st0
    IN  IF isPing /\ Len(toks) < 2
        THEN [st0 EXCEPT !.raised = TRUE]       \* line.split()[1]: IndexError, src 331
        ELSE IF ~Contains(line, PRIVMSG) THEN st1
        ELSE LET sender == DropFirst(SplitOnce(line, BANG)[1], 1)
                 msg_parts == SplitOnce(line, PRIVMSG_SP)
             IN  IF Len(msg_parts) < 2
                 THEN st1                       \* IndexError, caught at src 348
                 ELSE LET tm == SplitOnce(msg_parts[2], COLON)
                      IN  IF Len(tm) < 2
                          THEN [st1 EXCEPT !.raised = TRUE]   \* ValueError, src 338
                          ELSE route(sender, Strip(tm[1]), Strip(tm[2]), st1, resp, delay)

-----------------------------------------------------------------------------
(* What the world does: the lines the server delivers, the chunks recv     *)
(* returns, the answers of the search API.                                  *)

\* origin-marker + sender + '!' + ... + " PRIVMSG " + target + " :" + payload
DeliveryLine(prefix, target, payload) ==
    prefix \o <<" ">> \o PRIVMSG_SP \o target \o SP_COLON \o payload

\* the delivery lines the server hands over: sender's prefix, target, payload.
\* The targets are the bot, the joined channel and a channel not joined; the
\* senders are nicknames, which the server never lets begin with '#'.
Deliveries ==
    {<<Alice, nickname, SearchCats>>,
     <<Bob, nickname, SearchPrivacyTools>>,
     <<Alice, nickname, SearchNothing>>,
     <<Bob, nickname, HELP>>,
     <<Alice, nickname, Hello>>,
     <<Alice, test_room, SearchCats>>,
     <<Bob, test_room, HELP>>,
     <<Alice, test_room, Hello>>,
     <<Alice, other_room, SearchCats>>,
     <<Bob, other_room, HELP>>}

\* the sender's name in a prefix
SenderOf(prefix) == IF prefix = Alice THEN alice ELSE bob

DeliveryLines == {DeliveryLine(d[1], d[2], d[3]) : d \in Deliveries}

InboundLines ==
    DeliveryLines \cup {PingLine, PingBare, NoColonLine, MarkerOnlyLine, JoinLine}

\* what one recv of the receive loop returns: a whole line, two lines, the two
\* halves of a line, a byte that is not UTF-8
RecvChunks ==
    {l \o CRLF : l \in InboundLines}
    \cup {DeliveryLine(Alice, nickname, SearchCats) \o CRLF
              \o DeliveryLine(Bob, nickname, SearchPrivacyTools) \o CRLF,
          PingLine \o CRLF \o DeliveryLine(Alice, test_room, SearchCats) \o CRLF,
          Alice \o <<" ">> \o PRIVMSG_SP,
          nickname \o SP_COLON \o SearchCats \o CRLF,
          <<"FF">>}

\* the results the search API may return
ShortResult ==
    [keys |-> {"title", "url", "description"}, nulls |-> {},
     title |-> CatsTitle, url |-> CatsUrl, description |-> <<>>]

DescribedResult ==
    [keys |-> {"title", "url", "description"}, nulls |-> {},
     title |-> CatsTitle, url |-> CatsUrl, description |-> CatsDescription]

\* every field as long as the formatter lets it be
LongResult ==
    [keys |-> {"title", "url", "description"}, nulls |-> {},
     title |-> Rep("t", 100), url |-> Rep("u", 100), description |-> Rep("d", 200)]

\* every field longer than the formatter lets it be
OverlongResult ==
    [keys |-> {"title", "url", "description"}, nulls |-> {},
     title |-> Rep("t", 101), url |-> Rep("u", 120), description |-> Rep("d", 201)]

\* a result with no key at all
BareResult ==
    [keys |-> {}, nulls |-> {}, title |-> <<>>, url |-> <<>>, description |-> <<>>]

\* a result whose description is null
NullResult ==
    [keys |-> {"title", "url", "description"}, nulls |-> {"description"},
     title |-> CatsTitle, url |-> CatsUrl, description |-> <<>>]

Response(raised, status_code, results) ==
    [raised |-> raised, status_code |-> status_code, results |-> results]

\* a search that raises before the API answers
NoResponse == Response(TRUE, 0, <<>>)

ApiResponses ==
    {NoResponse,
     Response(FALSE, 500, <<>>),
     Response(FALSE, 200, <<>>),
     Response(FALSE, 200, <<ShortResult>>),
     Response(FALSE, 200, <<LongResult>>),
     Response(FALSE, 200, <<ShortResult, DescribedResult, BareResult>>),
     Response(FALSE, 200, <<OverlongResult, ShortResult>>),
     Response(FALSE, 200, <<ShortResult, NullResult, ShortResult>>),
     Response(FALSE, 200, [i \in 1..6 |-> ShortResult])}

\* the ticks a search call may take
SearchTicks == {0, 1}

-----------------------------------------------------------------------------
(* connect(), src 62-94.                                                    *)

\* what one recv of the handshake returns
HandshakeChunks ==
    {WelcomeLine \o CRLF,
     NoticeLine \o CRLF,
     PingLine \o CRLF,
     ErrorLine \o CRLF,
     ErrorLine \o CRLF \o WelcomeLine \o CRLF,
     <<"FF">>}

\* the handshake is cut off when connect()'s buffer would grow past this
MaxHandshakeBuffer == 66

\* the sends of src 84-86
RECURSIVE JoinAll(_)
JoinAll(chans) ==
    IF chans = <<>> THEN <<>>
    ELSE <<Send(JOIN_SP \o chans[1]), Sleep(1000)>> \o JoinAll(Tail(chans))

\* one pass of the loop of connect(), src 75-90, over a received chunk: the new
\* buffer, the events, and "true" / "false" (connect returns) or "continue"
connect_step(buf, chunk) ==
    LET d == Utf8Decode(chunk)
        b == buf \o d.text
        toks == SplitWs(DropFirst(b, Find(b, PING) - 1))
        hasPing == Contains(b, PING)
        pong == IF hasPing THEN <<Send(PONG_SP \o toks[2])>> ELSE <<>>
        recv == <<[type |-> "recv", text |-> d.text]>>
    IN  IF ~d.ok
        THEN [buffer |-> buf, ev |-> <<[type |-> "decode_failed"]>>,
              result |-> "false"]                                   \* src 92-94
        ELSE IF hasPing /\ Len(toks) < 2
        THEN [buffer |-> b, ev |-> recv, result |-> "false"]       \* IndexError, src 80
        ELSE IF Contains(b, RPL_WELCOME)
        THEN [buffer |-> b, ev |-> recv \o pong \o JoinAll(channels), result |-> "true"]
        ELSE IF Contains(b, ClosingLink) \/ Contains(b, ERROR)
        THEN [buffer |-> b, ev |-> recv \o pong, result |-> "false"]
        ELSE [buffer |-> b, ev |-> recv \o pong, result |-> "continue"]

-----------------------------------------------------------------------------
(* run(), src 314-358: the state and the steps.                             *)

\* the state of a SearchBot that run() has not started yet (src 41-60)
BotIdle ==
    /\ pc = "init"
    /\ hbuf = <<>>
    /\ lines = <<>>
    /\ minute_window = <<>>
    /\ day_window = <<>>
    /\ now = 0
    /\ ev = <<>>
    /\ recorded = <<>>
    /\ closed = FALSE

\* no byte stream is being framed
FramerIdle ==
    /\ stream = <<>>
    /\ rest = <<>>
    /\ emitted = <<>>
    /\ failed = FALSE

\* send_private_message is not being called
ChunkerIdle ==
    /\ original = <<>>
    /\ remaining = <<>>
    /\ limit = max_length
    /\ out = <<>>
    /\ removed = <<>>
    /\ finished = TRUE

Init ==
    /\ BotIdle
    /\ buffer = <<>>
    /\ FramerIdle
    /\ ChunkerIdle

limiterVars == <<minute_window, day_window, recorded>>

\* src 65-72: the socket connects; NICK and USER are sent
ConnectOpens ==
    /\ pc = "init"
    /\ pc' = "handshake"
    /\ hbuf' = <<>>
    /\ ev' = <<[type |-> "connect"], Send(NickLine), Send(UserLine)>>
    /\ UNCHANGED <<buffer, lines, now>>
    /\ closed' = FALSE
    /\ UNCHANGED limiterVars
    /\ UNCHANGED framerVars
    /\ UNCHANGED chunkerVars

\* src 69, 92-94: the socket does not connect; connect() returns False and the
\* loop of run() calls it again
ConnectRaises ==
    /\ pc = "init"
    /\ pc' = "init"
    /\ ev' = <<[type |-> "connect_failed"]>>
    /\ UNCHANGED <<hbuf, buffer, lines, now>>
    /\ UNCHANGED closed
    /\ UNCHANGED limiterVars
    /\ UNCHANGED framerVars
    /\ UNCHANGED chunkerVars

\* src 75-90: one pass of the handshake loop that stays in the loop.  A recv that
\* returns nothing means the peer has closed, and so does every recv after it.
HandshakeContinues(chunk) ==
    /\ pc = "handshake"
    /\ closed => chunk = <<>>
    /\ \E r \in {connect_step(hbuf, chunk)} :
           /\ r.result = "continue"
           /\ Len(r.buffer) <= MaxHandshakeBuffer
           /\ hbuf' = r.buffer
           /\ ev' = r.ev
    /\ UNCHANGED <<pc, buffer, lines, now>>
    /\ closed' = (closed \/ chunk = <<>>)
    /\ UNCHANGED limiterVars
    /\ UNCHANGED framerVars
    /\ UNCHANGED chunkerVars

\* connect() returns True and run() goes on with the buffer it had
HandshakeReadyKeepsBuffer(chunk) ==
    /\ pc = "handshake"
    /\ ~closed
    /\ \E r \in {connect_step(hbuf, chunk)} :
           /\ r.result = "true"
           /\ ev' = r.ev
    /\ pc' = "ready"
    /\ hbuf' = <<>>
    /\ UNCHANGED <<buffer, lines, now>>
    /\ UNCHANGED limiterVars
    /\ UNCHANGED closed
    /\ UNCHANGED framerVars
    /\ UNCHANGED chunkerVars

\* src 83-87 and 318-319: the welcome is in the buffer, the channels are joined,
\* connect() returns True and run() starts with an empty buffer
HandshakeReady(chunk) ==
    /\ pc = "handshake"
    /\ ~closed
    /\ \E r \in {connect_step(hbuf, chunk)} :
           /\ r.result = "true"
           /\ ev' = r.ev
    /\ pc' = "ready"
    /\ hbuf' = <<>>
    /\ buffer' = <<>>
    /\ UNCHANGED <<lines, now>>
    /\ UNCHANGED closed
    /\ UNCHANGED limiterVars
    /\ UNCHANGED framerVars
    /\ UNCHANGED chunkerVars

\* src 89-94: connect() returns False; the loop of run() calls it again
HandshakeRejected(chunk) ==
    /\ pc = "handshake"
    /\ ~closed
    /\ \E r \in {connect_step(hbuf, chunk)} :
           /\ r.result = "false"
           /\ ev' = r.ev
    /\ pc' = "init"
    /\ hbuf' = <<>>
    /\ UNCHANGED <<buffer, lines, now>>
    /\ UNCHANGED closed
    /\ UNCHANGED limiterVars
    /\ UNCHANGED framerVars
    /\ UNCHANGED chunkerVars

\* src 76, 92-94: recv raises during the handshake; connect() returns False
HandshakeRecvRaises ==
    /\ pc = "handshake"
    /\ ~closed
    /\ pc' = "init"
    /\ hbuf' = <<>>
    /\ ev' = <<[type |-> "recv_failed"]>>
    /\ UNCHANGED <<buffer, lines, now>>
    /\ UNCHANGED closed
    /\ UNCHANGED limiterVars
    /\ UNCHANGED framerVars
    /\ UNCHANGED chunkerVars

\* the peer is cut off when the partial line in run()'s buffer would grow past this
MaxBuffer == 20

\* src 323-325: a chunk is received and decodes; its complete lines are to be
\* dispatched and the last part stays in the buffer.  A recv that returns nothing
\* means the peer has closed, and so does every recv after it.
RecvLines(chunk) ==
    /\ pc = "ready"
    /\ closed => chunk = <<>>
    /\ \E r \in {FramerFeed(buffer, chunk)} :
           /\ ~r.failed
           /\ Len(r.buffer) <= MaxBuffer
           /\ buffer' = r.buffer
           /\ lines' = r.lines
    /\ pc' = "dispatch"
    /\ ev' = <<>>
    /\ UNCHANGED <<hbuf, now>>
    /\ closed' = (closed \/ chunk = <<>>)
    /\ UNCHANGED limiterVars
    /\ UNCHANGED framerVars
    /\ UNCHANGED chunkerVars

\* src 351-353: the chunk does not decode; the buffer is emptied
RecvDecodeError(chunk) ==
    /\ pc = "ready"
    /\ ~closed
    /\ FramerFeed(buffer, chunk).failed
    /\ buffer' = <<>>
    /\ ev' = <<[type |-> "decode_failed"]>>
    /\ UNCHANGED <<pc, hbuf, lines, now>>
    /\ UNCHANGED closed
    /\ UNCHANGED limiterVars
    /\ UNCHANGED framerVars
    /\ UNCHANGED chunkerVars

\* src 323, 355-357: recv raises; the exception leaves the receive loop and
\* run()'s buffer is left as it is
RecvRaises ==
    /\ pc = "ready"
    /\ ~closed
    /\ pc' = "backoff"
    /\ ev' = <<[type |-> "recv_failed"]>>
    /\ UNCHANGED <<hbuf, buffer, lines, now>>
    /\ UNCHANGED closed
    /\ UNCHANGED limiterVars
    /\ UNCHANGED framerVars
    /\ UNCHANGED chunkerVars

\* the state the handlers of one line start from
Handling ==
    [minute_window |-> minute_window, day_window |-> day_window, now |-> now,
     ev |-> <<>>, recorded |-> recorded, raised |-> FALSE]

\* the dispatch of the line calls the search API
Searches(line) ==
    LET done == dispatch_line(line, Handling, NoResponse, 0).ev
    IN  \E i \in 1..Len(done) : done[i].type = "search"

\* what the search API may do while the next line is dispatched: its answer and
\* the ticks it takes, chosen only when the dispatch calls the API
ApiChoices ==
    IF pc = "dispatch" /\ lines # <<>> /\ Searches(Head(lines))
    THEN ApiResponses \X SearchTicks
    ELSE {<<NoResponse, 0>>}

\* src 327-349: the next line of the feed is dispatched
DispatchLine(resp, delay) ==
    /\ pc = "dispatch"
    /\ lines # <<>>
    /\ now + delay <= MaxTime
    /\ \E st \in {dispatch_line(Head(lines), Handling, resp, delay)} :
           /\ ~st.raised
           /\ minute_window' = st.minute_window
           /\ day_window' = st.day_window
           /\ recorded' = st.recorded
           /\ now' = st.now
           /\ ev' = st.ev
    /\ lines' = Tail(lines)
    /\ UNCHANGED <<pc, hbuf, buffer>>
    /\ UNCHANGED closed
    /\ UNCHANGED framerVars
    /\ UNCHANGED chunkerVars

Dispatch == \E c \in ApiChoices : DispatchLine(c[1], c[2])

\* src 331, 338, 355-357: dispatching the line raises before any handler is
\* called; the exception leaves the receive loop and the rest of the feed is dropped
DispatchRaises ==
    /\ pc = "dispatch"
    /\ lines # <<>>
    /\ \E st \in {dispatch_line(Head(lines), Handling, NoResponse, 0)} :
           /\ st.raised
           /\ ev' = st.ev
    /\ lines' = <<>>
    /\ pc' = "backoff"
    /\ UNCHANGED <<hbuf, buffer, now>>
    /\ UNCHANGED closed
    /\ UNCHANGED limiterVars
    /\ UNCHANGED framerVars
    /\ UNCHANGED chunkerVars

\* src 327, 321: every line of the feed is dispatched; the loop receives again
FeedDone ==
    /\ pc = "dispatch"
    /\ lines = <<>>
    /\ pc' = "ready"
    /\ ev' = <<>>
    /\ UNCHANGED <<hbuf, buffer, lines, now>>
    /\ UNCHANGED closed
    /\ UNCHANGED limiterVars
    /\ UNCHANGED framerVars
    /\ UNCHANGED chunkerVars

\* src 355-358: time.sleep(30), then the loop of run() connects again
Backoff ==
    /\ pc = "backoff"
    /\ pc' = "init"
    /\ ev' = <<Sleep(30000)>>
    /\ UNCHANGED <<hbuf, buffer, lines, now>>
    /\ UNCHANGED closed
    /\ UNCHANGED limiterVars
    /\ UNCHANGED framerVars
    /\ UNCHANGED chunkerVars

\* time passes.  The clock is read only while a line is dispatched (src 26, 37),
\* so time that passes elsewhere shows as time passing while recv blocks.
Tick ==
    /\ pc = "ready"
    /\ now < MaxTime
    /\ now' = now + 1
    /\ ev' = <<>>
    /\ UNCHANGED <<pc, hbuf, buffer, lines>>
    /\ UNCHANGED closed
    /\ UNCHANGED limiterVars
    /\ UNCHANGED framerVars
    /\ UNCHANGED chunkerVars

Next ==
    \/ ConnectOpens
    \/ ConnectRaises
    \/ \E chunk \in HandshakeChunks :
           \/ HandshakeContinues(chunk)
           \/ HandshakeReady(chunk)
           \/ HandshakeRejected(chunk)
    \/ HandshakeRecvRaises
    \/ \E chunk \in RecvChunks : RecvLines(chunk) \/ RecvDecodeError(chunk)
    \/ RecvRaises
    \/ Dispatch
    \/ DispatchRaises
    \/ FeedDone
    \/ Backoff
    \/ Tick

Spec == Init /\ [][Next]_vars

-----------------------------------------------------------------------------
(* The framer on its own: the peer sends one stream of bytes, which        *)
(* irc.recv hands to the receive loop in chunks cut at arbitrary places.    *)

MaxStream == 5

StreamBytes == {"x", "CR", "LF", "C3", "A9", "FF"}

Streams == UNION {[1..n -> StreamBytes] : n \in 1..MaxStream}

InitFramer ==
    /\ BotIdle
    /\ stream \in Streams
    /\ rest = stream
    /\ buffer = <<>>
    /\ emitted = <<>>
    /\ failed = FALSE
    /\ ChunkerIdle

\* src 323-327: recv returns the next n bytes, they decode, the complete lines
\* are split off and the last part stays in the buffer
FeedLines(n) ==
    /\ n <= Len(rest)
    /\ LET r == FramerFeed(buffer, SubSeq(rest, 1, n))
       IN  /\ ~r.failed
           /\ buffer' = r.buffer
           /\ emitted' = emitted \o r.lines
    /\ rest' = DropFirst(rest, n)
    /\ UNCHANGED <<stream, failed>>
    /\ UNCHANGED botVars
    /\ UNCHANGED chunkerVars

\* src 351-353: the chunk does not decode, the buffer is emptied
FeedDecodeError(n) ==
    /\ n <= Len(rest)
    /\ LET r == FramerFeed(buffer, SubSeq(rest, 1, n))
       IN  /\ r.failed
           /\ buffer' = r.buffer
    /\ failed' = TRUE
    /\ rest' = DropFirst(rest, n)
    /\ UNCHANGED <<stream, emitted>>
    /\ UNCHANGED botVars
    /\ UNCHANGED chunkerVars

NextFramer == \E n \in 1..MaxStream : FeedLines(n) \/ FeedDecodeError(n)

SpecFramer == InitFramer /\ [][NextFramer]_vars

\* the stream is well-formed text: it decodes as a whole
WellFormed(s) == Utf8Decode(s).ok

\* the complete lines of a stream of bytes, as the peer sent them
CompleteLines(s) ==
    LET parts == SplitAll(s, CRLF) IN SubSeq(parts, 1, Len(parts) - 1)

\* C9: once a well-formed stream has been received in chunks, however it was cut,
\* the lines emitted are the lines emitted when the whole stream is one chunk.
C9_SplitFeedsEqualOneFeed ==
    (rest = <<>> /\ WellFormed(stream))
        => emitted = FramerFeed(<<>>, stream).lines

\* C10: a decode failure empties the buffer and later feeds are framed correctly:
\* every line emitted is a complete line exactly as the peer sent it.
C10_NoSynthesizedLine ==
    \A i \in 1..Len(emitted) :
        \E j \in 1..Len(CompleteLines(stream)) :
            Utf8Encode(emitted[i]) = CompleteLines(stream)[j]

-----------------------------------------------------------------------------
(* Properties of the rate limiter, the gate and the dispatcher, over Spec.  *)
(* ev is the log of the step just taken; recorded is every timestamp        *)
(* add_request was given since the bot started.                             *)

\* the events of one kind in a log, in order
Events(log, type) == SelectSeq(log, LAMBDA e : e.type = type)

\* the lines a log hands to the socket, in order
Sent(log) ==
    LET sends == Events(log, "send")
    IN  [i \in 1..Len(sends) |-> sends[i].line]

\* the log is the dispatch of the delivery line d
Dispatched(log, d) ==
    /\ log # <<>>
    /\ log[1].type = "line"
    /\ log[1].line = DeliveryLine(d[1], d[2], d[3])

\* how many recorded calls have a timestamp in the closed span [T - span, T]
RecordedWithin(T, span) ==
    Cardinality({i \in 1..Len(recorded) : T - span <= recorded[i] /\ recorded[i] <= T})

\* C1: at every moment T, the calls recorded in the minute up to T are at most
\* the per-minute capacity and the calls recorded in the day up to T are at most
\* the per-day capacity, whatever requests, clock advances and reconnects came.
C1_QuotaNeverExceeded ==
    \A T \in 0..MaxTime :
        /\ RecordedWithin(T, MinuteSpan) <= requests_per_minute
        /\ RecordedWithin(T, DaySpan) <= requests_per_day

\* both quotas are used up at the moment a call has just been recorded
C1_BothQuotasFull ==
    /\ Events(ev, "record") # <<>>
    /\ RecordedWithin(now, MinuteSpan) = requests_per_minute
    /\ RecordedWithin(now, DaySpan) = requests_per_day

\* what can_make_request would answer now
Allowed == can_make_request(minute_window, day_window, now).ok

\* the log holds a check that denied
Denied(log) == \E j \in 1..Len(log) : log[j].type = "check" /\ ~log[j].ok

\* C2: with as many calls recorded within the last minute as the per-minute
\* capacity, a timestamp exactly one minute old counting as within it, the check
\* denies; with fewer (the oldest has aged past the minute) and the day's capacity
\* not used up, the check allows; and a check denies only when a quota is used up.
C2_DeniedExactlyWhenFull ==
    /\ RecordedWithin(now, MinuteSpan) = requests_per_minute => ~Allowed
    /\ (/\ RecordedWithin(now, MinuteSpan) < requests_per_minute
        /\ RecordedWithin(now, DaySpan) < requests_per_day) => Allowed
    /\ Denied(ev) => \/ RecordedWithin(now, MinuteSpan) = requests_per_minute
                     \/ RecordedWithin(now, DaySpan) = requests_per_day

\* a request has just been denied by the minute quota alone, the oldest call of
\* the minute being exactly one minute old
C2_DeniedAtBoundary ==
    /\ Denied(ev)
    /\ RecordedWithin(now, MinuteSpan) = requests_per_minute
    /\ RecordedWithin(now, DaySpan) < requests_per_day
    /\ \E i \in 1..Len(recorded) : recorded[i] = now - MinuteSpan
    /\ \A i \in 1..Len(recorded) : recorded[i] < now

\* what C3 says of the step that leaves the log ev'
C3_Step ==
    LET log == ev'
        private == Events(log, "private")
    IN  /\ \A k \in 1..Len(log) :
               log[k].type = "search" =>
                   /\ Len(Events(log, "line")) = 1
                   /\ Len(private) = 1
                   /\ \E j \in 1..(k - 1) : log[j].type = "check" /\ log[j].ok
        /\ Denied(log) =>
               /\ Len(private) = 1
               /\ Len(Events(log, "pm")) = 1
               /\ Sent(log) = <<PrivmsgLine(private[1].sender, RateLimitNotice)>>
               /\ Events(log, "search") = <<>>
               /\ recorded' = recorded

\* C3: every call of the search API comes after a check that allowed, in the
\* dispatch of the same private line; a denied private search is answered by the
\* rate-limit notice alone, sent to its sender, with no call of the search API and
\* no call recorded.
C3_SearchOnlyBehindGate == [][C3_Step]_vars

\* a private search has just been denied
C3_SearchDenied ==
    /\ Denied(ev)
    /\ Len(Events(ev, "private")) = 1
    /\ StartsWith(Events(ev, "private")[1].message, SEARCH_SP)

\* the log is the dispatch of a private search with a query that the gate let pass
PassedSearch(log) ==
    LET private == Events(log, "private")
        checks == Events(log, "check")
    IN  /\ Len(private) = 1
        /\ StartsWith(private[1].message, SEARCH_SP)
        /\ Strip(DropFirst(private[1].message, 8)) # <<>>
        /\ Len(checks) = 1
        /\ checks[1].ok

\* C4 as stated: the windows change only in the dispatch of a private search
\* with a query that passed the gate, which records exactly one call; any other
\* step leaves both windows as they were.
C4_WindowsChangeOnlyByRecording ==
    [][IF PassedSearch(ev')
       THEN /\ Len(Events(ev', "record")) = 1
            /\ Len(recorded') = Len(recorded) + 1
       ELSE UNCHANGED <<minute_window, day_window>>]_vars

\* kept is window without some of its oldest timestamps, each of them more than
\* span before t
OnlyExpiredRemoved(window, kept, t, span) ==
    /\ Len(kept) <= Len(window)
    /\ kept = SubSeq(window, Len(window) - Len(kept) + 1, Len(window))
    /\ \A i \in 1..(Len(window) - Len(kept)) : window[i] < t - span

\* window2 is window1 without expired timestamps and with t2 appended
PrunedThenRecorded(window1, window2, t1, span, t2) ==
    /\ window2 # <<>>
    /\ window2[Len(window2)] = t2
    /\ OnlyExpiredRemoved(window1, SubSeq(window2, 1, Len(window2) - 1), t1, span)

\* what the amended C4 says of a step
C4_Step ==
    /\ \/ /\ recorded' = recorded
          /\ OnlyExpiredRemoved(minute_window, minute_window', now, MinuteSpan)
          /\ OnlyExpiredRemoved(day_window, day_window', now, DaySpan)
       \/ /\ PassedSearch(ev')
          /\ Len(Events(ev', "record")) = 1
          /\ recorded' = Append(recorded, now')
          /\ PrunedThenRecorded(minute_window, minute_window', now, MinuteSpan, now')
          /\ PrunedThenRecorded(day_window, day_window', now, DaySpan, now')
    /\ (minute_window' # minute_window \/ day_window' # day_window) =>
           /\ Len(Events(ev', "private")) = 1
           /\ StartsWith(Events(ev', "private")[1].message, SEARCH_SP)
           /\ Len(Events(ev', "check")) = 1

\* C4, amended: a call is recorded only in the dispatch of a private search with
\* a query that passed the gate, and then exactly one; apart from that the windows
\* change only by losing expired timestamps, and only in the dispatch of a private
\* search that reached the gate, allowed or denied; every other step leaves both
\* windows as they were.
C4_RecordsOnlyBehindGate == [][C4_Step]_vars

\* a denied search has just removed expired timestamps from the windows
C4_DeniedSearchPruned ==
    \E j \in 1..Len(ev) : ev[j].type = "check" /\ ~ev[j].ok /\ ev[j].expired > 0

\* the private deliveries whose payload is the search command and blank text
EmptySearches ==
    {d \in Deliveries :
        /\ d[2] = nickname
        /\ StartsWith(d[3], SEARCH_SP)
        /\ Strip(DropFirst(d[3], 8)) = <<>>}

\* C5: the dispatch of a private line whose payload is the search command
\* followed by nothing but blanks sends the usage notice to the sender, nothing
\* else, and does not call the search API.
C5_EmptySearchGetsUsage ==
    \A d \in EmptySearches :
        Dispatched(ev, d) =>
            /\ Sent(ev) = <<PrivmsgLine(SenderOf(d[1]), UsageNotice)>>
            /\ Events(ev, "search") = <<>>

\* C6: a dispatch that called the search API and got k results, k from 1 to 5,
\* sends the sender k result lines numbered 1..k and then the attribution, k + 1
\* lines in all, and records one call; one that got no result sends the
\* no-results notice alone.
C6_ResultsThenAttribution ==
    \A s \in 1..Len(ev) :
        ev[s].type = "search" =>
            LET k == ev[s].returned
                sender == Events(ev, "private")[1].sender
                sent == Sent(ev)
            IN  /\ Len(Events(ev, "record")) = 1
                /\ k = 0 => sent = <<PrivmsgLine(sender, NoResultsNotice)>>
                /\ k >= 1 =>
                       /\ Len(sent) = k + 1
                       /\ \A i \in 1..k :
                              StartsWith(sent[i],
                                         PrivmsgLine(sender, <<Digit(i)>> \o DotSpace))
                       /\ sent[k + 1] = PrivmsgLine(sender, Attribution)

\* the line is a delivery addressed to a channel
ToChannel(line) == StartsWith(line, PRIVMSG_SP \o <<"#">>)

\* what C7 says of the step that leaves the log ev'
C7_Step ==
    LET log == ev'
        channel == Events(log, "channel")
        private == Events(log, "private")
        sent == Sent(log)
    IN  /\ channel # <<>> =>
               /\ Events(log, "search") = <<>>
               /\ Events(log, "check") = <<>>
               /\ Events(log, "record") = <<>>
               /\ UNCHANGED limiterVars
        /\ \A i \in 1..Len(sent) :
               ToChannel(sent[i]) =>
                   /\ Len(channel) = 1
                   /\ sent[i] \in {PrivmsgLine(channel[1].channel, ChannelHelp),
                                   PrivmsgLine(channel[1].channel,
                                               channel[1].sender \o RedirectNotice)}
        /\ \A c \in 1..Len(channel) :
               (channel[c].message # HELP /\ StartsWith(channel[c].message, SEARCH)) =>
                   sent = <<PrivmsgLine(channel[c].channel,
                                        channel[c].sender \o RedirectNotice)>>
        /\ Events(log, "search") # <<>> =>
               /\ Len(private) = 1
               /\ StartsWith(private[1].message, SEARCH_SP)
               /\ \A i \in 1..Len(sent) :
                      StartsWith(sent[i], PRIVMSG_SP \o private[1].sender \o SP_COLON)

\* C7: the channel handler neither calls the search API nor touches the rate
\* limiter; a line sent to a channel is the channel help or the redirect, never a
\* result or the attribution; a search attempt in a channel is answered by the
\* redirect alone; and what a search sends goes to the sender of the private
\* search.
C7_ResultsOnlyInPrivate == [][C7_Step]_vars

\* a search attempt in the joined channel has just been answered
C7_ChannelSearchRedirected ==
    /\ Dispatched(ev, <<Alice, test_room, SearchCats>>)
    /\ Sent(ev) = <<PrivmsgLine(test_room, alice \o RedirectNotice)>>

\* C8: a delivery line addressed to the bot's nickname goes to the private
\* handler and to no other, one addressed to a joined channel goes to the channel
\* handler and to no other, and one addressed elsewhere reaches no handler and
\* sends nothing.
C8_RoutedByTarget ==
    \A d \in Deliveries :
        Dispatched(ev, d) =>
            LET private == Events(ev, "private")
                channel == Events(ev, "channel")
            IN  IF d[2] = nickname
                THEN /\ private = <<[type |-> "private", sender |-> SenderOf(d[1]),
                                     message |-> Strip(d[3])]>>
                     /\ channel = <<>>
                ELSE IF IsChannel(d[2])
                THEN /\ channel = <<[type |-> "channel", sender |-> SenderOf(d[1]),
                                     channel |-> d[2], message |-> Strip(d[3])]>>
                     /\ private = <<>>
                     /\ \A i \in 1..Len(Sent(ev)) : ToChannel(Sent(ev)[i])
                ELSE /\ Len(ev) = 1
                     /\ Sent(ev) = <<>>

\* a delivery addressed to a channel the bot has not joined has just been dropped
C8_OtherTargetDropped ==
    /\ Dispatched(ev, <<Alice, other_room, SearchCats>>)
    /\ Len(ev) = 1

\* what C19 says of a step
C19_Step ==
    /\ (pc' \in {"backoff", "init", "handshake"} \/ pc = "handshake") =>
           UNCHANGED <<minute_window, day_window, recorded>>
    /\ (pc = "handshake" /\ pc' = "ready") => (buffer' = <<>> /\ lines' = <<>>)

\* C19: the steps of a reconnect, from the failure that ends a session to the
\* connect() that returns True, leave both windows of the rate limiter and the
\* calls recorded as they were, and the receive loop of the new session starts
\* with an empty buffer and no line to dispatch.
C19_ReconnectKeepsQuotaDropsBuffer == [][C19_Step]_vars

\* a new session has just been established while the calls recorded before the
\* disconnect use up a quota
C19_ReconnectedWithQuotaFull ==
    /\ pc = "ready"
    /\ Events(ev, "recv") # <<>>
    /\ buffer = <<>>
    /\ recorded # <<>>
    /\ ~Allowed
-----------------------------------------------------------------------------
(* send_private_message alone, src 104-126, one pass of its while loop per  *)
(* step, on any short message of letters, spaces and tabs and any small     *)
(* max_length of at least 1.                                                *)

\* the longest message given to send_private_message
MaxText == 5

\* the largest max_length
MaxLimit == 3

ChunkChars == {"a", "b", " ", "TAB"}

Texts == UNION {[1..n -> ChunkChars] : n \in 0..MaxText}

\* message[split_point:].lstrip(), src 121
Remainder(message, L) == LStrip(DropFirst(message, split_point(message, L)))

\* the whitespace that src 121 strips from message[split_point:]
Stripped(message, L) ==
    TakeFirst(DropFirst(message, split_point(message, L)),
              Len(DropFirst(message, split_point(message, L)))
              - Len(Remainder(message, L)))

\* send_private_message(alice, original) is called with max_length = limit
InitChunker ==
    /\ BotIdle
    /\ buffer = <<>>
    /\ FramerIdle
    /\ original \in Texts
    /\ remaining = original
    /\ limit \in 1..MaxLimit
    /\ out = <<>>
    /\ removed = <<>>
    /\ finished = FALSE

\* src 110: the message is empty, the loop ends
ChunkLoopEnds ==
    /\ ~finished
    /\ remaining = <<>>
    /\ finished' = TRUE
    /\ UNCHANGED <<original, remaining, limit, out, removed>>
    /\ UNCHANGED botVars
    /\ UNCHANGED <<buffer, stream, rest, emitted, failed>>

\* src 111-113: the message fits, it is sent and the loop is left
ChunkLast ==
    /\ ~finished
    /\ remaining # <<>>
    /\ Len(remaining) <= limit
    /\ out' = out \o <<Send(PrivmsgLine(alice, remaining))>>
    /\ finished' = TRUE
    /\ UNCHANGED <<original, remaining, limit, removed>>
    /\ UNCHANGED botVars
    /\ UNCHANGED <<buffer, stream, rest, emitted, failed>>

\* src 115-122: the message does not fit; its part before the breaking point is
\* sent, the rest is left-stripped, and the loop sleeps
ChunkSplit ==
    /\ ~finished
    /\ Len(remaining) > limit
    /\ out' = out \o <<Send(PrivmsgLine(alice,
                                        TakeFirst(remaining, split_point(remaining, limit)))),
                       Sleep(500)>>
    /\ remaining' = Remainder(remaining, limit)
    /\ removed' = Append(removed, Stripped(remaining, limit))
    /\ UNCHANGED <<original, limit, finished>>
    /\ UNCHANGED botVars
    /\ UNCHANGED <<buffer, stream, rest, emitted, failed>>

NextChunker == ChunkLoopEnds \/ ChunkLast \/ ChunkSplit

\* the loop runs on until it ends: nothing stops the call between two passes
SpecChunker == InitChunker /\ [][NextChunker]_vars /\ WF_vars(NextChunker)
-----------------------------------------------------------------------------
(* Properties of send_private_message, over SpecChunker.                    *)

\* the payloads of the delivery lines sent so far, in order
Chunks ==
    LET sends == SelectSeq(out, LAMBDA e : e.type = "send")
    IN  [i \in 1..Len(sends) |->
            DropFirst(sends[i].line, Len(PrivmsgLine(alice, <<>>)))]

\* C11: whatever the message and whatever max_length L >= 1, the loop of
\* send_private_message ends, and no delivery line it sends carries a payload
\* longer than L.
C11_ChunksFitAndLoopEnds ==
    /\ [](\A i \in 1..Len(Chunks) : Len(Chunks[i]) <= limit)
    /\ <>finished

\* a message with no space to break at has been cut at the limit into several
\* lines, and the call is over
C11_HardCutDone ==
    /\ finished
    /\ Len(original) > limit
    /\ \A i \in 1..Len(original) : original[i] \notin Whitespace
    /\ Len(Chunks) >= 2
    /\ Len(Chunks[1]) = limit

\* the chunks sent so far, each split chunk followed by the whitespace that was
\* stripped after it
RECURSIVE Reassembled(_)
Reassembled(i) ==
    IF i > Len(Chunks) THEN <<>>
    ELSE Chunks[i] \o (IF i <= Len(removed) THEN removed[i] ELSE <<>>)
         \o Reassembled(i + 1)

\* C12: at every moment of a call the chunks sent so far, in the order sent and
\* with the whitespace stripped at each split put back, followed by what is still
\* to send, are the message given; what was stripped is whitespace only.
C12_ChunksReassemble ==
    /\ \A i \in 1..Len(removed) :
           \A j \in 1..Len(removed[i]) : removed[i][j] \in Whitespace
    /\ Len(removed) <= Len(Chunks)
    /\ Reassembled(1) \o (IF finished THEN <<>> ELSE remaining) = original

\* a call is over that split twice, once stripping whitespace, once cutting
\* inside a word
C12_SplitBothWays ==
    /\ finished
    /\ Len(removed) >= 2
    /\ \E i \in 1..Len(removed) : removed[i] # <<>>
    /\ \E i \in 1..Len(removed) : removed[i] = <<>>

\* C13: when a call is over, each sleep of its pacing stands between two
\* delivery lines: the last event of the call is a delivery line, not a sleep.
C13_NoSleepAfterLastChunk ==
    (finished /\ ~ChunkerIdle) =>
        \A i \in 1..Len(out) :
            out[i].type = "sleep" =>
                /\ i > 1
                /\ out[i - 1].type = "send"
                /\ i < Len(out)
                /\ out[i + 1].type = "send"
-----------------------------------------------------------------------------
(* The session alone: connect(), the receive loop and the reconnect, with   *)
(* no search among the lines received, and with a peer that may close.     *)

\* what one recv of the handshake returns, a link closed on a client at an
\* IPv6 address and nothing (the peer has closed) included
SessionHandshakeChunks ==
    HandshakeChunks \cup {BannedLine \o CRLF, <<>>}

\* what one recv of the receive loop returns, a malformed line with a probe
\* after it and nothing (the peer has closed) included
SessionRecvChunks ==
    {chunk \in RecvChunks : ~Contains(chunk, SEARCH)}
    \cup {NoColonLine \o CRLF \o PingLine \o CRLF, <<>>}

NextSession ==
    \/ ConnectOpens
    \/ ConnectRaises
    \/ \E chunk \in SessionHandshakeChunks :
           \/ HandshakeContinues(chunk)
           \/ HandshakeReady(chunk)
           \/ HandshakeRejected(chunk)
    \/ HandshakeRecvRaises
    \/ \E chunk \in SessionRecvChunks : RecvLines(chunk) \/ RecvDecodeError(chunk)
    \/ RecvRaises
    \/ Dispatch
    \/ DispatchRaises
    \/ FeedDone
    \/ Backoff
    \/ Tick

\* The process keeps running: the for loop of run() ends and the receive loop
\* receives again, sleep returns, connect() is called again, and a recv on a
\* socket the peer has closed returns at once.  A recv on an open socket may
\* block for ever, so it is given no fairness.
SpecSession ==
    /\ Init
    /\ [][NextSession]_vars
    /\ WF_vars(FeedDone)
    /\ WF_vars(Backoff)
    /\ WF_vars(ConnectOpens \/ ConnectRaises)
    /\ WF_vars(closed /\ RecvLines(<<>>))

-----------------------------------------------------------------------------
(* Properties of the handshake, the receive loop and the reconnect, over    *)
(* SpecSession.                                                             *)

\* a keepalive probe: a line beginning with PING and carrying an argument
IsProbe(line) == StartsWith(line, PING) /\ Len(SplitWs(line)) >= 2

\* the keepalive probes among the complete lines of a text, in order
Probes(text) == SelectSeq(CompleteLines(text), IsProbe)

\* the keepalive responses that answer the probes, one each, same argument
Answers(probes) == [i \in 1..Len(probes) |-> PONG_SP \o SplitWs(probes[i])[2]]

\* the keepalive responses a log sends, in order
Pongs(log) == SelectSeq(Sent(log), LAMBDA line : StartsWith(line, PONG_SP))

\* C14: the keepalive responses of a step are the answers to the probes the step
\* received, one response for each probe, with its argument: in the handshake
\* the probes of the lines the recv of this pass completed, in the dispatch loop
\* the dispatched line when it is a probe; no other step sends a response.
C14_EveryProbeAnsweredOnce ==
    [][LET recv == Events(ev', "recv")
           line == Events(ev', "line")
       IN  /\ recv # <<>> =>
                  LET before == Probes(hbuf)
                      after == Probes(hbuf \o recv[1].text)
                  IN  Pongs(ev') = Answers(SubSeq(after, Len(before) + 1, Len(after)))
           /\ line # <<>> => Pongs(ev') = Answers(SelectSeq(<<line[1].line>>, IsProbe))
           /\ (recv = <<>> /\ line = <<>>) => Pongs(ev') = <<>>]_vars

\* the text the handshake has received once the recv of the log is added
Received(log) == hbuf \o Events(log, "recv")[1].text

\* a link-closed or explicit error signal: an ERROR line, or a line that says
\* the link is closing
IsErrorSignal(line) == StartsWith(line, ERROR) \/ Contains(line, ClosingLink)

\* C15: a pass of the handshake that has an error or link-closed line among the
\* lines received so far makes connect() return False (run() is back before
\* connect), whatever else has been received.
C15_ErrorSignalRejects ==
    [][(/\ Events(ev', "recv") # <<>>
        /\ \E i \in 1..Len(CompleteLines(Received(ev'))) :
               IsErrorSignal(CompleteLines(Received(ev'))[i]))
           => pc' = "init"]_vars

\* the line lacks a separator the dispatcher expects: a keepalive token with no
\* argument, or a delivery marker with no target or with no colon after it
Malformed(line) ==
    \/ StartsWith(line, PING) /\ Len(SplitWs(line)) < 2
    \/ /\ Contains(line, PRIVMSG)
       /\ \/ Len(SplitOnce(line, PRIVMSG_SP)) < 2
          \/ ~Contains(SplitOnce(line, PRIVMSG_SP)[2], COLON)

\* C16: the dispatch of a line that lacks an expected separator sends nothing,
\* stays in the dispatch loop of the same session and leaves the lines after it
\* in the feed, and the buffered partial line, to be dispatched.
C16_MalformedLineSkipped ==
    [][(pc = "dispatch" /\ lines # <<>> /\ Malformed(Head(lines)))
           => /\ pc' = "dispatch"
              /\ lines' = Tail(lines)
              /\ Sent(ev') = <<>>
              /\ UNCHANGED buffer]_vars

\* C17: run() comes before a call of connect() again only by the wait of the
\* backoff interval, so that every failure of connect() or of the receive loop
\* is followed by that wait before the next attempt; and after a failure a next
\* attempt is always reached.
C17_BackoffBeforeEveryRetry ==
    /\ [][pc' = "init" => Events(ev', "sleep") = <<Sleep(30000)>>]_vars
    /\ (pc = "backoff") ~> (pc = "init")

\* C18: once the peer has closed the socket, run() eventually leaves the session
\* and is before a call of connect() again.
C18_DeadTransportLeadsToReconnect == closed ~> (pc = "init")

\* a welcome signal: a line whose command is the numeric 001
IsWelcome(line) == Len(SplitWs(line)) >= 2 /\ SplitWs(line)[2] = RPL_WELCOME

\* the lines a log sends that are not keepalive responses
Commands(log) == SelectSeq(Sent(log), LAMBDA line : ~StartsWith(line, PONG_SP))

\* C20: NICK and USER are what the opening of the connection sends; a pass of
\* the handshake sends JOIN only when a welcome line is among the lines received
\* so far, and then one JOIN for each configured channel, in order, and connect()
\* returns True; a pass that makes connect() return True sends exactly these; no
\* other step sends any of these commands.
C20_JoinsOnlyAfterWelcome ==
    [][LET joins == [i \in 1..Len(channels) |-> JOIN_SP \o channels[i]]
       IN  /\ (pc = "init" /\ pc' = "handshake") => Commands(ev') = <<NickLine, UserLine>>
           /\ (pc = "handshake" /\ pc' = "ready") => Commands(ev') = joins
           /\ (pc = "handshake" /\ Commands(ev') # <<>>) =>
                  /\ Commands(ev') = joins
                  /\ pc' = "ready"
                  /\ \E i \in 1..Len(CompleteLines(Received(ev'))) :
                         IsWelcome(CompleteLines(Received(ev'))[i])]_vars

=============================================================================
